---- MODULE Spec2Model ----
(***************************************************************************)
(* Orbital-mechanics demos of peterfairfield/precatasis.                   *)
(*                                                                         *)
(* The repository holds three stand-alone page scripts; a run executes one *)
(* of them (the field `variant` of a simulation says which):               *)
(*   "physical"  src/src/solar-system.js : Simulation / Sun / Planet /     *)
(*               SolarSystem, Newtonian pull of the sun, trails, reset     *)
(*   "clamped"   src/unnamed/part_000:1-166 : init / updatePlanetPositions *)
(*               with the MAX_FORCE clamp, random initial placement        *)
(*   "kinematic" src/unnamed/part_000:168-322 : Planet.angle advanced by   *)
(*               speed * delta * speedMultiplier                           *)
(*                                                                         *)
(* Numbers.  JavaScript numbers are IEEE doubles.  They are modelled as    *)
(* tagged values: [k |-> "fin", v |-> n] is the real n / ONE (fixed point, *)
(* three decimals, results truncated toward zero), [k |-> "inf"] is        *)
(* +-Infinity and [k |-> "nan"] is NaN, with the IEEE rules for division   *)
(* by zero, 0 * Infinity and NaN propagation.  TLC integers are 32 bit, so *)
(* the physical magnitudes of the sources (1e30 kg, 1e11 m, 3600 s) are    *)
(* replaced by small magnitudes of the same structure; every constant      *)
(* names the source line it stands for.                                    *)
(***************************************************************************)
EXTENDS Integers, Sequences, FiniteSets, TLC

(***************************************************************************)
(* Fixed-point doubles                                                     *)
(***************************************************************************)
ONE == 10 * 10 * 10

Fin(n) == [k |-> "fin", v |-> n]
NaN == [k |-> "nan", v |-> 0]
Inf(s) == [k |-> "inf", v |-> s]

Real(n) == Fin(n * ONE)

IsFinite(a) == a.k = "fin"
IsNaN(a) == a.k = "nan"

Abs(n) == IF n < 0 THEN -n ELSE n
Sgn(n) == IF n < 0 THEN -1 ELSE IF n = 0 THEN 0 ELSE 1

\* floor(a * b / ONE) for naturals, without leaving 32 bits when the result fits
MulQ(a, b) ==
    LET hi == IF a >= b THEN a ELSE b
        lo == IF a >= b THEN b ELSE a
    IN  (hi \div ONE) * lo + ((hi % ONE) * lo) \div ONE

\* floor(a * ONE / b) for naturals, b > 0, by long division (ONE = 10^3)
DivQ(a, b) ==
    LET q  == a \div b
        r0 == (a % b) * 10
        r1 == (r0 % b) * 10
        r2 == (r1 % b) * 10
    IN  q * ONE + (r0 \div b) * 100 + (r1 \div b) * 10 + (r2 \div b)

\* mid * mid <= n * ONE, decided without forming either product
LeSquare(mid, n) ==
    LET q == MulQ(mid, mid)
    IN  q < n \/ (q = n /\ ((mid % ONE) * (mid % ONE)) % ONE = 0)

\* floor(sqrt(n * ONE)) for a natural n: the fixed-point square root
RECURSIVE SqrtSearch(_, _, _)
SqrtSearch(n, lo, hi) ==
    IF lo >= hi THEN lo
    ELSE LET mid == (lo + hi + 1) \div 2
         IN  IF LeSquare(mid, n) THEN SqrtSearch(n, mid, hi)
             ELSE SqrtSearch(n, lo, mid - 1)

SqrtQ(n) == SqrtSearch(n, 0, 1400 * ONE)

FNeg(a) ==
    IF a.k = "nan" THEN NaN
    ELSE IF a.k = "inf" THEN Inf(-a.v)
    ELSE Fin(-a.v)

FAdd(a, b) ==
    IF a.k = "nan" \/ b.k = "nan" THEN NaN
    ELSE IF a.k = "inf" /\ b.k = "inf" THEN (IF a.v = b.v THEN a ELSE NaN)
    ELSE IF a.k = "inf" THEN a
    ELSE IF b.k = "inf" THEN b
    ELSE Fin(a.v + b.v)

FSub(a, b) == FAdd(a, FNeg(b))

FMul(a, b) ==
    IF a.k = "nan" \/ b.k = "nan" THEN NaN
    ELSE IF a.k = "inf" \/ b.k = "inf"
         THEN (IF a.v = 0 \/ b.v = 0 THEN NaN ELSE Inf(Sgn(a.v) * Sgn(b.v)))
    ELSE Fin(Sgn(a.v) * Sgn(b.v) * MulQ(Abs(a.v), Abs(b.v)))

FDiv(a, b) ==
    IF a.k = "nan" \/ b.k = "nan" THEN NaN
    ELSE IF a.k = "inf"
         THEN (IF b.k = "inf" THEN NaN
               ELSE Inf(a.v * (IF b.v < 0 THEN -1 ELSE 1)))
    ELSE IF b.k = "inf" THEN Fin(0)
    ELSE IF b.v = 0 THEN (IF a.v = 0 THEN NaN ELSE Inf(Sgn(a.v)))
    ELSE Fin(Sgn(a.v) * Sgn(b.v) * DivQ(Abs(a.v), Abs(b.v)))

\* a < b as JavaScript compares: false when either side is NaN
FLess(a, b) ==
    IF a.k = "nan" \/ b.k = "nan" THEN FALSE
    ELSE IF a.k = "inf" THEN (a.v < 0 /\ ~(b.k = "inf" /\ b.v < 0))
    ELSE IF b.k = "inf" THEN b.v > 0
    ELSE a.v < b.v

\* Math.min
FMin(a, b) ==
    IF a.k = "nan" \/ b.k = "nan" THEN NaN
    ELSE IF FLess(b, a) THEN b ELSE a

\* Math.sqrt
FSqrt(a) ==
    IF a.k = "nan" THEN NaN
    ELSE IF a.k = "inf" THEN (IF a.v > 0 THEN a ELSE NaN)
    ELSE IF a.v < 0 THEN NaN
    ELSE Fin(SqrtQ(a.v))

\* x || 1 : JavaScript takes the right operand when x is 0 or NaN
OrOne(a) == IF a.k = "nan" \/ (a.k = "fin" /\ a.v = 0) THEN Real(1) ELSE a

(***************************************************************************)
(* Math.PI, Math.sin, Math.cos, Math.random                                *)
(***************************************************************************)
PI == Fin(3142)

\* sin on [0, pi] in thousandths of a radian (Bhaskara's rational form)
SinHalfTurn(x) ==
    LET p == x * (PI.v - x)
    IN  (16 * p) \div ((5 * PI.v * PI.v - 4 * p) \div ONE)

SinQ(x) ==
    LET m == x % (2 * PI.v)
    IN  IF m <= PI.v THEN SinHalfTurn(m) ELSE -SinHalfTurn(m - PI.v)

\* Math.sin, Math.cos
FSin(a) == IF a.k = "fin" THEN Fin(SinQ(a.v)) ELSE NaN
FCos(a) == IF a.k = "fin" THEN Fin(SinQ(a.v + PI.v \div 2)) ELSE NaN

\* Math.random: the page's generator is a seed and the number of draws made
\* so far; a draw is a value in [0, 1)
NewRng(seed) == [seed |-> seed, calls |-> 0]
RandomValue(rng) == Fin((rng.seed * 389 + rng.calls * (130 * rng.seed + 173)) % ONE)
Advance(rng, n) == [rng EXCEPT !.calls = rng.calls + n]
\* the value of the n-th draw after the ones already made (n = 1 is the next)
Draw(rng, n) == RandomValue(Advance(rng, n - 1))

(***************************************************************************)
(* THREE.Vector3                                                           *)
(***************************************************************************)
Vector3(x, y, z) == [x |-> x, y |-> y, z |-> z]
ZeroVector == Vector3(Fin(0), Fin(0), Fin(0))

add(a, b) == Vector3(FAdd(a.x, b.x), FAdd(a.y, b.y), FAdd(a.z, b.z))
sub(a, b) == Vector3(FSub(a.x, b.x), FSub(a.y, b.y), FSub(a.z, b.z))
multiplyScalar(a, s) == Vector3(FMul(a.x, s), FMul(a.y, s), FMul(a.z, s))
divideScalar(a, s) == Vector3(FDiv(a.x, s), FDiv(a.y, s), FDiv(a.z, s))
length(a) == FSqrt(FAdd(FAdd(FMul(a.x, a.x), FMul(a.y, a.y)), FMul(a.z, a.z)))
normalize(a) == divideScalar(a, OrOne(length(a)))
distanceTo(a, b) == length(sub(a, b))

IsFiniteVector(a) == IsFinite(a.x) /\ IsFinite(a.y) /\ IsFinite(a.z)

(***************************************************************************)
(* "physical": src/src/solar-system.js                                     *)
(***************************************************************************)
G == Real(1)                    \* 6.67430e-11
SCALE == Fin(500)               \* 1e-9: metres to scene units, here 0.5
SUN_MASS == Real(40)            \* 1.9885e30
MAX_POINTS == 1000              \* trail.maxPoints
ORBIT_SEGMENTS == 64
HOUR == Fin(100)                \* animate's delta = 60 * 60, here 0.1

\* new Sun()
Sun == [mass |-> SUN_MASS, position |-> ZeroVector]

\* the arguments of the four `new Planet(...)` of initializePlanets:
\* distance, mass, initialVelocity, rotationSpeed (circular-orbit speeds
\* sqrt(G * SUN_MASS / distance), as the source's values are)
PlanetArgs(name, distance, mass, speed, rotationSpeed) ==
    [name |-> name, distance |-> distance, mass |-> mass,
     initialVelocity |-> Vector3(Fin(0), speed, Fin(0)),
     rotationSpeed |-> rotationSpeed]

ShippedPlanets ==
    << PlanetArgs("Mercury", Real(4), Real(3), Fin(3162), Fin(17)),
       PlanetArgs("Venus", Real(6), Real(48), Fin(2582), Fin(4)),
       PlanetArgs("Earth", Real(8), Real(60), Fin(2236), Fin(73)),
       PlanetArgs("Mars", Real(12), Real(6), Fin(1826), Fin(70)) >>

\* Planet's constructor takes any distance: the second list places the first
\* planet at distance 0, on the sun
PlanetLists == {ShippedPlanets, [ShippedPlanets EXCEPT ![1].distance = Fin(0)]}

\* Planet.createOrbit: a circle of radius distance * SCALE with 64 segments
createOrbit(distance) ==
    [radius |-> FMul(distance, SCALE), segments |-> ORBIT_SEGMENTS]

\* Planet.constructor followed by the updatePosition() of initializePlanets
Planet(args) ==
    LET position == multiplyScalar(Vector3(args.distance, Fin(0), Fin(0)), SCALE)
    IN  [name |-> args.name,
         distance |-> args.distance,
         mass |-> args.mass,
         initialVelocity |-> args.initialVelocity,
         rotationSpeed |-> args.rotationSpeed,
         position |-> position,
         velocity |-> multiplyScalar(args.initialVelocity, SCALE),
         meshPosition |-> position,
         meshRotationY |-> Fin(0),
         orbit |-> createOrbit(args.distance),
         trailPoints |-> << >>,
         maxPoints |-> MAX_POINTS]

\* an updatePosition that leaves the mesh where it was (C12 tells it from
\* Planet.updatePosition)
updatePositionSkipped(planet) == planet

\* Planet.updatePosition
updatePosition(planet) == [planet EXCEPT !.meshPosition = planet.position]

\* a reset that puts the planet back and forgets its velocity (C1 tells it
\* from Planet.reset)
resetKeepingVelocity(planet) ==
    updatePosition(
        [planet EXCEPT
            !.position = Vector3(FMul(planet.distance, SCALE), Fin(0), Fin(0))])

\* a reset that also empties the trail (C7 tells it from Planet.reset)
resetClearingTrail(planet) ==
    updatePosition(
        [planet EXCEPT
            !.position = Vector3(FMul(planet.distance, SCALE), Fin(0), Fin(0)),
            !.velocity = multiplyScalar(planet.initialVelocity, SCALE),
            !.trailPoints = << >>])

\* Planet.reset
reset(planet) ==
    updatePosition(
        [planet EXCEPT
            !.position = Vector3(FMul(planet.distance, SCALE), Fin(0), Fin(0)),
            !.velocity = multiplyScalar(planet.initialVelocity, SCALE)])

\* a trail that drops its newest point when full, pop() for shift() (C2 tells
\* it from Planet.updateTrail)
updateTrailDroppingNewest(planet) ==
    LET pushed == Append(planet.trailPoints, planet.position)
    IN  [planet EXCEPT
            !.trailPoints = IF Len(pushed) > planet.maxPoints
                            THEN SubSeq(pushed, 1, Len(pushed) - 1) ELSE pushed]

\* Planet.updateTrail
updateTrail(planet) ==
    LET pushed == Append(planet.trailPoints, planet.position)
    IN  [planet EXCEPT
            !.trailPoints = IF Len(pushed) > planet.maxPoints
                            THEN Tail(pushed) ELSE pushed]

\* the local forceMagnitude of Planet.update: G * M * m / r^2, r in metres
gravity(planet, sun) ==
    LET direction == sub(sun.position, planet.position)
        distance  == FDiv(length(direction), SCALE)
    IN  FDiv(FMul(FMul(G, sun.mass), planet.mass), FMul(distance, distance))

\* an update that leaves the mass converted to scene units (C9 tells it from
\* Planet.update)
updateRescalingMass(planet, sun, delta) ==
    LET direction      == normalize(sub(sun.position, planet.position))
        forceMagnitude == gravity(planet, sun)
        acceleration   == multiplyScalar(direction, FDiv(forceMagnitude, planet.mass))
        velocity       == add(planet.velocity,
                              multiplyScalar(acceleration, FMul(delta, SCALE)))
        position       == add(planet.position, multiplyScalar(velocity, delta))
    IN  updateTrail(updatePosition(
            [planet EXCEPT
                !.mass = FMul(planet.mass, SCALE),
                !.velocity = velocity,
                !.position = position,
                !.meshRotationY = FAdd(planet.meshRotationY,
                                       FMul(planet.rotationSpeed, delta))]))

\* Planet.update(sun, delta)
update(planet, sun, delta) ==
    LET direction      == normalize(sub(sun.position, planet.position))
        forceMagnitude == gravity(planet, sun)
        acceleration   == multiplyScalar(direction, FDiv(forceMagnitude, planet.mass))
        velocity       == add(planet.velocity,
                              multiplyScalar(acceleration, FMul(delta, SCALE)))
        position       == add(planet.position, multiplyScalar(velocity, delta))
    IN  updateTrail(updatePosition(
            [planet EXCEPT
                !.velocity = velocity,
                !.position = position,
                !.meshRotationY = FAdd(planet.meshRotationY,
                                       FMul(planet.rotationSpeed, delta))]))

\* new Simulation(): the SolarSystem with its sun and planets, showOrbits off
SolarSystem(planetList, rng) ==
    [variant |-> "physical",
     sun |-> Sun,
     planets |-> [i \in 1..Len(planetList) |-> Planet(planetList[i])],
     showOrbits |-> FALSE,
     sceneOrbits |-> {},
     forceMagnitude |-> << >>,
     rng |-> rng]

\* the body of SolarSystem.animate: every planet's update(sun, delta)
animatePhysical(w, delta) ==
    [w EXCEPT
        !.planets = [i \in 1..Len(w.planets) |-> update(w.planets[i], w.sun, delta)],
        !.forceMagnitude = [i \in 1..Len(w.planets) |-> gravity(w.planets[i], w.sun)]]

\* Simulation.resetSimulation
resetSimulation(w) ==
    [w EXCEPT !.planets = [i \in 1..Len(w.planets) |-> reset(w.planets[i])]]

\* Simulation.toggleOrbits(value), after lil-gui has stored value in showOrbits
toggleOrbits(w, value) ==
    [w EXCEPT
        !.showOrbits = value,
        !.sceneOrbits = IF value THEN 1..Len(w.planets) ELSE {}]

(***************************************************************************)
(* "clamped": src/unnamed/part_000, lines 1-166                            *)
(***************************************************************************)
SCALE_CLAMPED == Real(2)        \* SCALE = 1e12, here 2
TIME_STEP == Fin(16)            \* 1 / 60
MAX_FORCE == Real(1)            \* 1e-4; below every pull the bodies exert
SUN_RADIUS == Real(10)          \* sunRadius
SUN_MASS_UNIT == Real(10000)    \* the 1e30 of sunRadius * 1e30
PLANET_MASS_UNIT == Real(1)     \* the 1e24 of planetRadius * 1e24
PLANET_COUNT == 4

\* the sun mesh of init(): at the origin, userData.mass = sunRadius * 1e30
SunMesh == [mass |-> FMul(SUN_RADIUS, SUN_MASS_UNIT), position |-> ZeroVector]

\* one turn of init()'s loop; r1..r4 are its four Math.random() draws
PlanetMesh(sun, r1, r2, r3, r4) ==
    LET planetRadius == FAdd(Real(2), FMul(r1, Real(2)))
        distance     == FAdd(Real(30), FMul(r2, Real(70)))
        angle        == FMul(FMul(r3, PI), Real(2))
        speed        == FMul(FSqrt(FDiv(FMul(G, sun.mass),
                                        FMul(distance, SCALE_CLAMPED))),
                             Fin(100))
    IN  [radius |-> planetRadius,
         position |-> Vector3(FMul(FCos(angle), distance),
                              FMul(FSub(r4, Fin(500)), Real(20)),
                              FMul(FSin(angle), distance)),
         velocity |-> Vector3(FMul(FNeg(FSin(angle)), speed),
                              Fin(0),
                              FMul(FCos(angle), speed)),
         mass |-> FMul(planetRadius, PLANET_MASS_UNIT)]

\* init(): the scene's sun and planets
init(rng) ==
    [variant |-> "clamped",
     sun |-> SunMesh,
     planets |-> [i \in 1..PLANET_COUNT |->
                    PlanetMesh(SunMesh,
                               Draw(rng, 4 * (i - 1) + 1), Draw(rng, 4 * (i - 1) + 2),
                               Draw(rng, 4 * (i - 1) + 3), Draw(rng, 4 * (i - 1) + 4))],
     forceMagnitude |-> << >>,
     rng |-> Advance(rng, 4 * PLANET_COUNT)]

\* G * M * m / r^2 of updatePlanetPositions, before the clamp
unclampedForce(planet, sun) ==
    LET distanceToSun == distanceTo(planet.position, sun.position)
    IN  FDiv(FMul(FMul(G, sun.mass), planet.mass),
             FMul(distanceToSun, distanceToSun))

\* the force with the Math.min line left out (C3 tells it from clampForce)
withoutClamp(forceMagnitude) == forceMagnitude

\* forceMagnitude = Math.min(forceMagnitude, MAX_FORCE)
clampForce(forceMagnitude) == FMin(forceMagnitude, MAX_FORCE)

\* the direction without the clone(): sub() and normalize() work on the sun's
\* own position (C10 tells it from forceDirection)
forceDirectionInPlace(sun, planet) ==
    LET direction == normalize(sub(sun.position, planet.position))
    IN  [sun |-> [sun EXCEPT !.position = direction], direction |-> direction]

\* sun.position.clone().sub(planet.position).normalize(): works on a copy, so
\* the sun's own position is the `sun` field returned as it was
forceDirection(sun, planet) ==
    [sun |-> sun, direction |-> normalize(sub(sun.position, planet.position))]

\* a turn that moves the planet by the velocity it had before the step,
\* explicit Euler (C11 tells it from the forEach body)
movePlanetByOldVelocity(sun, planet, delta) ==
    LET aimed          == forceDirection(sun, planet)
        forceMagnitude == clampForce(unclampedForce(planet, sun))
        force          == multiplyScalar(aimed.direction, forceMagnitude)
        acceleration   == divideScalar(force, planet.mass)
        positionDelta  == multiplyScalar(planet.velocity, FDiv(delta, SCALE_CLAMPED))
    IN  [sun |-> aimed.sun,
         planet |-> [planet EXCEPT
                        !.velocity = add(planet.velocity,
                                         multiplyScalar(acceleration, delta)),
                        !.position = add(planet.position, positionDelta)],
         forceMagnitude |-> forceMagnitude]

\* one turn of the forEach of updatePlanetPositions(delta)
movePlanet(sun, planet, delta) ==
    LET aimed          == forceDirection(sun, planet)
        forceMagnitude == clampForce(unclampedForce(planet, sun))
        force          == multiplyScalar(aimed.direction, forceMagnitude)
        acceleration   == divideScalar(force, planet.mass)
        velocity       == add(planet.velocity, multiplyScalar(acceleration, delta))
        positionDelta  == multiplyScalar(velocity, FDiv(delta, SCALE_CLAMPED))
    IN  [sun |-> aimed.sun,
         planet |-> [planet EXCEPT !.velocity = velocity,
                                   !.position = add(planet.position, positionDelta)],
         forceMagnitude |-> forceMagnitude]

\* updatePlanetPositions(delta): the planets in order, from the i-th on
RECURSIVE movePlanetsFrom(_, _, _)
movePlanetsFrom(w, i, delta) ==
    IF i > Len(w.planets) THEN w
    ELSE LET moved == movePlanet(w.sun, w.planets[i], delta)
         IN  movePlanetsFrom(
                 [w EXCEPT !.sun = moved.sun,
                           !.planets[i] = moved.planet,
                           !.forceMagnitude[i] = moved.forceMagnitude],
                 i + 1, delta)

updatePlanetPositions(w, delta) ==
    movePlanetsFrom([w EXCEPT !.forceMagnitude = [i \in 1..Len(w.planets) |-> NaN]],
                    1, delta)

(***************************************************************************)
(* "kinematic": src/unnamed/part_000, lines 168-322                        *)
(***************************************************************************)
FRAME == Real(1)                \* animate's delta = 0.1, here 1

\* the arguments of the four `new Planet(name, size, distance, color, speed)`
KinematicArgs ==
    << [name |-> "Mercury", distance |-> Real(15), speed |-> Fin(20)],
       [name |-> "Venus", distance |-> Real(25), speed |-> Fin(15)],
       [name |-> "Earth", distance |-> Real(35), speed |-> Fin(10)],
       [name |-> "Mars", distance |-> Real(45), speed |-> Fin(8)] >>

\* Planet.updatePosition: the mesh on the circle at this.angle
updatePositionOnCircle(planet) ==
    [planet EXCEPT
        !.meshPosition = Vector3(FMul(planet.distance, FCos(planet.angle)),
                                 Fin(0),
                                 FMul(planet.distance, FSin(planet.angle)))]

\* Planet.constructor; r is its Math.random() draw
KinematicPlanet(args, r) ==
    updatePositionOnCircle(
        [name |-> args.name,
         distance |-> args.distance,
         speed |-> args.speed,
         angle |-> FMul(FMul(r, PI), Real(2)),
         meshPosition |-> ZeroVector,
         orbit |-> [radius |-> args.distance, segments |-> ORBIT_SEGMENTS]])

\* an update that leaves the speed multiplier out (C6 tells it from
\* Planet.update of the kinematic page)
updateAngleAtFullSpeed(planet, delta, speedMultiplier) ==
    updatePositionOnCircle(
        [planet EXCEPT !.angle = FAdd(planet.angle, FMul(planet.speed, delta))])

\* Planet.update(delta, speedMultiplier)
updateAngle(planet, delta, speedMultiplier) ==
    updatePositionOnCircle(
        [planet EXCEPT
            !.angle = FAdd(planet.angle,
                           FMul(FMul(planet.speed, delta), speedMultiplier))])

\* SolarSystem.constructor of the kinematic page
KinematicSystem(rng) ==
    [variant |-> "kinematic",
     sun |-> [position |-> ZeroVector],
     planets |-> [i \in 1..Len(KinematicArgs) |->
                    KinematicPlanet(KinematicArgs[i], Draw(rng, i))],
     speedMultiplier |-> Real(1),
     rng |-> Advance(rng, Len(KinematicArgs))]

\* the body of SolarSystem.animate: every planet's update(delta, speedMultiplier)
animateKinematic(w, delta) ==
    [w EXCEPT
        !.planets = [i \in 1..Len(w.planets) |->
                        updateAngle(w.planets[i], delta, w.speedMultiplier)]]

\* the onChange handler of the Speed slider
setSpeedMultiplier(w, value) == [w EXCEPT !.speedMultiplier = value]

(***************************************************************************)
(* One frame of whichever page is running                                  *)
(***************************************************************************)
\* a frame whose delta is stretched by a Math.random() draw (C8 tells it from
\* animate)
animateWithJitter(w, delta) ==
    LET jittered == FMul(delta, FAdd(Real(1), RandomValue(w.rng)))
    IN  CASE w.variant = "physical" -> animatePhysical(w, jittered)
          [] w.variant = "clamped" -> updatePlanetPositions(w, jittered)
          [] w.variant = "kinematic" -> animateKinematic(w, jittered)

animate(w, delta) ==
    CASE w.variant = "physical" -> animatePhysical(w, delta)
      [] w.variant = "clamped" -> updatePlanetPositions(w, delta)
      [] w.variant = "kinematic" -> animateKinematic(w, delta)

\* the delta the page's animate() passes on every frame
frameDelta(w) ==
    CASE w.variant = "physical" -> HOUR
      [] w.variant = "clamped" -> TIME_STEP
      [] w.variant = "kinematic" -> FRAME

(***************************************************************************)
(* The state machine                                                       *)
(*                                                                         *)
(* sim         the running page: its sun, planets, controls and generator  *)
(* twin        in a paired run, a second page of the same script, built    *)
(*             with the same arguments and given the same inputs as sim;   *)
(*             NoTwin otherwise                                            *)
(* constructed sim as it was right after construction                      *)
(* sameStart   whether twin's bodies equalled sim's right after            *)
(*             construction                                                *)
(* pushed      per planet, every position handed to updateTrail so far     *)
(* frames      the number of frames run                                    *)
(* steps       the number of operations performed, each frame being one    *)
(* ops         the operations performed so far, each with its argument     *)
(*             (a frame's delta, the slider's value), oldest first         *)
(***************************************************************************)
VARIABLES sim, twin, constructed, sameStart, pushed, frames, steps, ops

vars == <<sim, twin, constructed, sameStart, pushed, frames, steps, ops>>

MaxSteps == 3
MaxPairSteps == 3
MaxKinematicSteps == 4
MaxFrames == 1003
BurstFrames == 100

Variants == {"physical", "clamped", "kinematic"}
Seeds == {1, 2}

NoTwin == [variant |-> "none"]
Paired == twin # NoTwin

\* what the script does on load
Construct(variant, planetList, seed) ==
    CASE variant = "physical" -> SolarSystem(planetList, NewRng(seed))
      [] variant = "clamped" -> init(NewRng(seed))
      [] variant = "kinematic" -> KinematicSystem(NewRng(seed))

\* the deltas a frame is run with: the one animate() passes, its double,
\* zero and its negative
Deltas(w) ==
    {frameDelta(w), FAdd(frameDelta(w), frameDelta(w)), Fin(0), FNeg(frameDelta(w))}

\* the Speed slider: 0 to 500
SpeedValues == {Fin(0), Real(1), Real(500)}

Bodies(w) == [sun |-> w.sun, planets |-> w.planets]

LastOp == ops[Len(ops)]

Init ==
    \E variant \in Variants, planetList \in PlanetLists, seed \in Seeds :
        /\ sim = Construct(variant, planetList, seed)
        /\ twin \in {NoTwin} \cup {Construct(variant, planetList, twinSeed) : twinSeed \in Seeds}
        /\ constructed = sim
        /\ sameStart = (Paired /\ Bodies(sim) = Bodies(twin))
        /\ pushed = [i \in 1..Len(sim.planets) |-> << >>]
        /\ frames = 0
        /\ steps = 0
        /\ ops = << [name |-> "construct", arg |-> Fin(0)] >>

\* one frame with the given delta, and the positions it hands to updateTrail
\* appended to trace
runFrame(w, trace, delta) ==
    LET after == animate(w, delta)
    IN  [w |-> after,
         pushed |-> IF w.variant = "physical"
                    THEN [i \in 1..Len(trace) |->
                             Append(trace[i], after.planets[i].position)]
                    ELSE trace]

\* n frames in a row: the first half of them, then the rest from the state
\* the first half ended in
RECURSIVE runFrames(_, _, _, _)
runFrames(w, trace, n, delta) ==
    IF n = 0 THEN [w |-> w, pushed |-> trace]
    ELSE IF n = 1 THEN runFrame(w, trace, delta)
    ELSE CHOOSE ran \in {runFrames(half.w, half.pushed, n - n \div 2, delta) :
                            half \in {runFrames(w, trace, n \div 2, delta)}} : TRUE

Animate(n, delta) ==
    /\ \E ran \in {runFrames(sim, pushed, n, delta)} :
          sim' = ran.w /\ pushed' = ran.pushed
    /\ twin' = IF Paired THEN runFrames(twin, pushed, n, delta).w ELSE twin
    /\ frames' = frames + n
    /\ steps' = steps + n
    /\ ops' = ops \o [k \in 1..n |-> [name |-> "animate", arg |-> delta]]
    /\ UNCHANGED <<constructed, sameStart>>

Frame(bound) ==
    /\ steps < bound
    /\ \E delta \in Deltas(sim) : Animate(1, delta)

\* the Reset Simulation button
ResetSimulation(bound) ==
    /\ steps < bound
    /\ sim.variant = "physical"
    /\ sim' = resetSimulation(sim)
    /\ twin' = IF Paired THEN resetSimulation(twin) ELSE twin
    /\ steps' = steps + 1
    /\ ops' = Append(ops, [name |-> "reset", arg |-> Fin(0)])
    /\ UNCHANGED <<constructed, sameStart, pushed, frames>>

\* the Show Orbits checkbox
ToggleOrbits(bound) ==
    /\ steps < bound
    /\ sim.variant = "physical"
    /\ \E value \in BOOLEAN :
        /\ sim' = toggleOrbits(sim, value)
        /\ twin' = IF Paired THEN toggleOrbits(twin, value) ELSE twin
        /\ ops' = Append(ops, [name |-> "toggleOrbits",
                               arg |-> IF value THEN Real(1) ELSE Fin(0)])
    /\ steps' = steps + 1
    /\ UNCHANGED <<constructed, sameStart, pushed, frames>>

\* the Speed slider
SetSpeed(bound) ==
    /\ steps < bound
    /\ sim.variant = "kinematic"
    /\ \E value \in SpeedValues :
        /\ sim' = setSpeedMultiplier(sim, value)
        /\ twin' = IF Paired THEN setSpeedMultiplier(twin, value) ELSE twin
        /\ ops' = Append(ops, [name |-> "setSpeed", arg |-> value])
    /\ steps' = steps + 1
    /\ UNCHANGED <<constructed, sameStart, pushed, frames>>

Next(bound) ==
    Frame(bound) \/ ResetSimulation(bound) \/ ToggleOrbits(bound) \/ SetSpeed(bound)

\* one page
InitSingle == Init /\ ~Paired
Spec == InitSingle /\ [][Next(MaxSteps)]_vars

\* two pages of the same script, side by side
InitPair == Init /\ Paired
SpecPair == InitPair /\ [][Next(MaxPairSteps)]_vars

\* the kinematic page alone, a step further
InitKinematic == InitSingle /\ sim.variant = "kinematic"
NextKinematic == Frame(MaxKinematicSteps) \/ SetSpeed(MaxKinematicSteps)
SpecKinematic == InitKinematic /\ [][NextKinematic]_vars

\* the shipped physical page left to run: animate() on every frame, nothing else
InitLoop ==
    /\ InitSingle
    /\ sim.variant = "physical"
    /\ [i \in 1..Len(sim.planets) |-> sim.planets[i].distance]
         = [i \in 1..Len(ShippedPlanets) |-> ShippedPlanets[i].distance]
    /\ sim.rng.seed = 1

LoopFrame ==
    /\ frames < MaxFrames
    /\ Animate(1, frameDelta(sim))

\* a burst of frames with no state looked at in between
LoopBurst ==
    /\ frames % BurstFrames = 0
    /\ frames + BurstFrames <= MaxFrames
    /\ Animate(BurstFrames, frameDelta(sim))

SpecLoop == InitLoop /\ [][LoopFrame \/ LoopBurst]_vars

(***************************************************************************)
(* Properties                                                              *)
(***************************************************************************)
PlanetIndices == 1..Len(sim.planets)
Gravitating == sim.variant \in {"physical", "clamped"}
OpNames == {ops[k].name : k \in 1..Len(ops)}
Last(seq) == seq[Len(seq)]
Min(a, b) == IF a < b THEN a ELSE b

\* C1: right after reset(), whatever frames and deltas came before, every
\* planet's position and velocity are exactly the ones it had right after
\* construction.
C1_ResetRestoresConstruction ==
    LastOp.name = "reset" =>
        \A i \in PlanetIndices :
            /\ sim.planets[i].position = constructed.planets[i].position
            /\ sim.planets[i].velocity = constructed.planets[i].velocity

\* a reset that followed a frame which had moved the planet elsewhere
C1_Witness ==
    /\ LastOp.name = "reset"
    /\ \E i \in PlanetIndices :
        /\ pushed[i] # << >>
        /\ Last(pushed[i]) # constructed.planets[i].position
        /\ sim.planets[i].position = constructed.planets[i].position

\* C2: after n pushes (one per update) a planet's trail is the last
\* min(n, 1000) pushed positions, oldest first; its length never exceeds 1000.
C2_TrailIsNewestPositions ==
    \A i \in PlanetIndices :
        LET n    == Len(pushed[i])
            kept == Min(n, MAX_POINTS)
        IN  /\ n = frames
            /\ Len(sim.planets[i].trailPoints) = kept
            /\ Len(sim.planets[i].trailPoints) <= MAX_POINTS
            /\ sim.planets[i].trailPoints = SubSeq(pushed[i], n - kept + 1, n)

\* two points have been evicted: the trail starts at the third push
C2_Witness ==
    /\ frames = MAX_POINTS + 2
    /\ \A i \in PlanetIndices :
        /\ Len(sim.planets[i].trailPoints) = MAX_POINTS
        /\ sim.planets[i].trailPoints[1] = pushed[i][3]
        /\ pushed[i][3] # pushed[i][1]

\* the pull on planet i at the start of the step, before any clamp
Pull(i) ==
    IF sim.variant = "physical" THEN gravity(sim.planets[i], sim.sun)
    ELSE unclampedForce(sim.planets[i], sim.sun)

\* C3 as stated: in every step of either gravitating script the force
\* magnitude applied is min(G * M * m / r^2, MAX_FORCE).
C3_EveryStepClamps ==
    [][(LastOp'.name = "animate" /\ Gravitating) =>
          \A i \in PlanetIndices :
              sim'.forceMagnitude[i] = FMin(Pull(i), MAX_FORCE)]_vars

\* C3 amended: in every step of updatePlanetPositions, a planet whose
\* unclamped pull exceeds MAX_FORCE is accelerated by exactly MAX_FORCE
\* (its velocity gains direction * MAX_FORCE / mass * delta), and any other
\* by the unclamped pull.
C3_ClampedScriptClamps ==
    [][(LastOp'.name = "animate" /\ sim.variant = "clamped") =>
          \A i \in PlanetIndices :
              LET planet == sim.planets[i]
                  toSun  == normalize(sub(sim.sun.position, planet.position))
                  used   == sim'.forceMagnitude[i]
              IN  /\ FLess(MAX_FORCE, Pull(i)) => used = MAX_FORCE
                  /\ (~FLess(MAX_FORCE, Pull(i)) /\ ~IsNaN(Pull(i))) => used = Pull(i)
                  /\ sim'.planets[i].velocity =
                        add(planet.velocity,
                            multiplyScalar(
                                divideScalar(multiplyScalar(toSun, used), planet.mass),
                                LastOp'.arg))]_vars

\* a step of the clamped script that changed a velocity under the clamp
C3_Witness ==
    /\ sim.variant = "clamped"
    /\ LastOp.name = "animate"
    /\ \E i \in PlanetIndices :
        /\ FLess(MAX_FORCE, Pull(i))
        /\ sim.forceMagnitude[i] = MAX_FORCE
        /\ sim.planets[i].velocity # constructed.planets[i].velocity

C5_NegativeDeltaRejected ==
    [][(LastOp'.name = "animate" /\ FLess(LastOp'.arg, Fin(0))) =>
          sim'.planets = sim.planets]_vars

\* C6: a frame run while the speed multiplier is 0 changes no planet's angle
\* or mesh position; moving the slider changes no planet; and the first
\* frame after the slider is set above 0 advances each angle from the held
\* value by speed * delta * speedMultiplier.
C6_SpeedZeroHolds ==
    [][/\ (LastOp'.name = "animate" /\ sim.variant = "kinematic"
              /\ sim.speedMultiplier = Fin(0)) =>
            \A i \in PlanetIndices :
                /\ sim'.planets[i].angle = sim.planets[i].angle
                /\ sim'.planets[i].meshPosition = sim.planets[i].meshPosition
       /\ LastOp'.name = "setSpeed" => sim'.planets = sim.planets
       /\ (LastOp'.name = "animate" /\ sim.variant = "kinematic"
              /\ FLess(Fin(0), sim.speedMultiplier)) =>
            \A i \in PlanetIndices :
                sim'.planets[i].angle =
                    FAdd(sim.planets[i].angle,
                         FMul(FMul(sim.planets[i].speed, LastOp'.arg),
                              sim.speedMultiplier))]_vars

\* slider to 0, a frame that held, slider above 0, a frame that moved on from
\* the constructed angle
C6_Witness ==
    /\ sim.variant = "kinematic"
    /\ Len(ops) = 5
    /\ ops[2] = [name |-> "setSpeed", arg |-> Fin(0)]
    /\ ops[3] = [name |-> "animate", arg |-> FRAME]
    /\ ops[4].name = "setSpeed" /\ FLess(Fin(0), ops[4].arg)
    /\ ops[5] = [name |-> "animate", arg |-> FRAME]
    /\ \A i \in PlanetIndices :
        /\ sim.planets[i].angle # constructed.planets[i].angle
        /\ sim.planets[i].angle =
              FAdd(constructed.planets[i].angle,
                   FMul(FMul(sim.planets[i].speed, FRAME), sim.speedMultiplier))

\* C7: reset() leaves every planet's trail points, in their order, and its
\* orbit path as they were, and keeps the planet (its name, distance, mass).
C7_ResetKeepsTrailAndOrbit ==
    [][LastOp'.name = "reset" =>
          \A i \in PlanetIndices :
              /\ sim'.planets[i].trailPoints = sim.planets[i].trailPoints
              /\ sim'.planets[i].orbit = sim.planets[i].orbit
              /\ sim'.planets[i].name = sim.planets[i].name
              /\ sim'.planets[i].distance = sim.planets[i].distance
              /\ sim'.planets[i].mass = sim.planets[i].mass]_vars

\* a reset with two points in the trail, the planet moved back off the newest
C7_Witness ==
    /\ LastOp.name = "reset"
    /\ \A i \in PlanetIndices :
        /\ Len(sim.planets[i].trailPoints) = 2
        /\ sim.planets[i].trailPoints = pushed[i]
    /\ \E i \in PlanetIndices :
        Last(sim.planets[i].trailPoints) # sim.planets[i].position

C9_MassesUnchanged ==
    Gravitating =>
        /\ sim.sun.mass = constructed.sun.mass
        /\ \A i \in PlanetIndices : sim.planets[i].mass = constructed.planets[i].mass

\* frames and a reset have run and the planets have moved
C9_Witness ==
    /\ Gravitating
    /\ {"animate", "reset"} \subseteq OpNames
    /\ LastOp.name = "animate"
    /\ \A i \in PlanetIndices :
        sim.planets[i].position # constructed.planets[i].position

\* C10: the sun is at the origin in every reachable state.
C10_SunAtOrigin ==
    sim.sun.position = ZeroVector

\* the physical page after frames, a reset and an orbit toggle
C10_Witness ==
    /\ sim.variant = "physical"
    /\ {"animate", "reset", "toggleOrbits"} \subseteq OpNames
    /\ \E i \in PlanetIndices : pushed[i] # << >> /\ Last(pushed[i]) # sim.sun.position

\* the acceleration of planet i in the step that ends in the primed state:
\* the unit vector to the sun times the applied force, over the mass
\* (direction * (F / m) in Planet.update, (direction * F) / m in
\* updatePlanetPositions)
Acceleration(i) ==
    LET toSun == normalize(sub(sim.sun.position, sim.planets[i].position))
    IN  IF sim.variant = "physical"
        THEN multiplyScalar(toSun, FDiv(sim'.forceMagnitude[i], sim.planets[i].mass))
        ELSE divideScalar(multiplyScalar(toSun, sim'.forceMagnitude[i]),
                          sim.planets[i].mass)

\* the page's SCALE constant
PositionScale == IF sim.variant = "physical" THEN SCALE ELSE SCALE_CLAMPED

C12_MeshAndTrailFollowPosition ==
    sim.variant = "physical" =>
        \A i \in PlanetIndices :
            /\ sim.planets[i].meshPosition = sim.planets[i].position
            /\ LastOp.name = "animate" =>
                  /\ sim.planets[i].trailPoints # << >>
                  /\ Last(sim.planets[i].trailPoints) = sim.planets[i].position

\* a frame, a reset and a frame: every planet has moved off its start, with
\* its mesh and its newest trail point on it
C12_Witness ==
    /\ sim.variant = "physical"
    /\ Len(ops) = 4
    /\ ops[2].name = "animate" /\ ops[3].name = "reset" /\ ops[4].name = "animate"
    /\ \A i \in PlanetIndices :
        /\ sim.planets[i].position # constructed.planets[i].position
        /\ sim.planets[i].meshPosition = sim.planets[i].position
        /\ Len(sim.planets[i].trailPoints) = 2
        /\ Last(sim.planets[i].trailPoints) = sim.planets[i].position

====
